---- MODULE Spec2Model ----
(***************************************************************************)
(* A model of src/cvrp.ts: the Clarke-Wright savings heuristic             *)
(* (calculateSavings, clarkWright) and the nearest-depot clustering        *)
(* (getNearestDepot, formDepotClusters, routeWithinClusters,               *)
(* multiDepotVehicleRouter).                                               *)
(*                                                                         *)
(* Geometry.  Every coordinate lies on the equator (lat = 0) and `pos' is  *)
(* its longitude in whole units.  There the haversine formula of           *)
(* distance() reduces to RADIUS_OF_EARTH * |long_b - long_a| (in radians), *)
(* so distances, savings and their comparisons are those of |pos_b -       *)
(* pos_a|; the common positive factor is left out.                         *)
(*                                                                         *)
(* Objects.  A Route is a mutable object that the routes array and the     *)
(* nodeToRoute map alias, so Route objects live in `heap' (a sequence,     *)
(* indexed by address, that only grows) and `routes' and `nodeToRoute'     *)
(* hold addresses.  Address 0 is `undefined' (no entry in the map).        *)
(***************************************************************************)
EXTENDS Integers, Sequences, FiniteSets, TLC

\* ---------------------------------------------------------------- bounds
\* The longest node list handed to clarkWright.
MaxNodes == 4

\* The most depots, vendors and orders, taken together, handed to
\* multiDepotVehicleRouter.
MaxEntities == 5

\* ------------------------------------------------------------- constants
VEHICLE_INITIAL_CAPACITY == 10

ORDER == "ORDER"
VENDOR == "VENDOR"
NodeType == {ORDER, VENDOR}

\* ---------------------------------------------------------------- state
VARIABLES
  depot,        \* clarkWright's depot: [id, pos, capacity]
  nodeList,     \* clarkWright's nodeList: a sequence of NodeV records
  savingsList,  \* the ranked savings list of the running call
  routes,       \* the routes array: a sequence of Route addresses
  heap,         \* every Route object created so far, by address
  nodeToRoute,  \* the nodeToRoute map: node id -> Route address (0: absent)
  pc,           \* where the running clarkWright call is
  k,            \* the loop counter of the loop pc names
  last,         \* what the latest step did
  vehicleList,  \* multiDepotVehicleRouter's vehicleList (the depot list)
  vendorList,   \* multiDepotVehicleRouter's vendorList
  orderList,    \* multiDepotVehicleRouter's orderList
  depotClusters,\* formDepotClusters' map: depot id -> sequence of clusters
  depotRoutes,  \* routeWithinClusters' map: depot id -> sequence of Routes
  mpc,          \* where the running multiDepotVehicleRouter call is
  mk            \* the loop counter of the loop mpc names

cwVars == <<depot, nodeList, savingsList, routes, heap, nodeToRoute, pc, k, last>>

mdVars == <<vehicleList, vendorList, orderList, depotClusters, depotRoutes, mpc, mk>>

vars == <<depot, nodeList, savingsList, routes, heap, nodeToRoute, pc, k, last,
          vehicleList, vendorList, orderList, depotClusters, depotRoutes, mpc, mk>>

\* ------------------------------------------------------- small utilities
Abs(x) == IF x < 0 THEN -x ELSE x

Max(a, b) == IF a >= b THEN a ELSE b

Min(a, b) == IF a <= b THEN a ELSE b

Range(s) == {s[x] : x \in DOMAIN s}

\* ------------------------------------------------------------ data types
\* type Vehicle: the optional capacity is the empty set when absent.
Vehicle(id, pos, capacity) == [id |-> id, pos |-> pos, capacity |-> capacity]

\* type NodeV.
NodeV(id, type, demand, pos, vendorId) ==
  [id |-> id, type |-> type, demand |-> demand, pos |-> pos, vendorId |-> vendorId]

\* interface Route.
Route(nodes, capacityUsed, vehicleCapacity) ==
  [nodes |-> nodes, capacityUsed |-> capacityUsed, vehicleCapacity |-> vehicleCapacity]

\* interface Saving.
Saving(i, j, saving) == [i |-> i, j |-> j, saving |-> saving]

\* ------------------------------------------------------------- distance
distance(nodeA, nodeB) == Abs(nodeB.pos - nodeA.pos)

\* ------------------------------------------------------ calculateSavings
savingValue(d, ni, nj) == distance(d, ni) + distance(d, nj) - distance(ni, nj)

\* Variant of BothOrders: the test of the second node left out.
FirstIsOrder(ni, nj) == ni.type = ORDER

\* nodeList[i].type === NodeType.ORDER && nodeList[j].type === NodeType.ORDER
BothOrders(ni, nj) == ni.type = ORDER /\ nj.type = ORDER

RECURSIVE SavingsFrom(_, _, _, _)
SavingsFrom(d, nl, i, j) ==
  IF i > Len(nl) THEN <<>>
  ELSE IF j > Len(nl) THEN SavingsFrom(d, nl, i + 1, i + 2)
  ELSE (IF BothOrders(nl[i], nl[j])
          THEN <<Saving(nl[i].id, nl[j].id, savingValue(d, nl[i], nl[j]))>>
          ELSE <<>>)
       \o SavingsFrom(d, nl, i, j + 1)

calculateSavings(d, nl) == SavingsFrom(d, nl, 1, 2)

\* ------------------------------------------ savingsList.sort (descending)
\* Variant of ComesBefore: > in place of >=, equal savings change places.
ComesBeforeStrict(a, b) == a.saving > b.saving

\* Array.prototype.sort is stable: equal savings keep their production order.
ComesBefore(a, b) == a.saving >= b.saving

RECURSIVE InsertRanked(_, _)
InsertRanked(sorted, x) ==
  IF sorted = <<>> THEN <<x>>
  ELSE IF ComesBefore(sorted[1], x)
         THEN <<sorted[1]>> \o InsertRanked(Tail(sorted), x)
         ELSE <<x>> \o sorted

RECURSIVE SortDescending(_)
SortDescending(s) ==
  IF s = <<>> THEN <<>>
  ELSE InsertRanked(SortDescending(SubSeq(s, 1, Len(s) - 1)), s[Len(s)])

\* ------------------------------------------------------------ Map, Array
\* Map.get: 0 stands for undefined.
MapGet(m, key) == IF key \in DOMAIN m THEN m[key] ELSE 0

\* Map.set.
MapSet(m, key, value) ==
  [x \in (DOMAIN m) \cup {key} |-> IF x = key THEN value ELSE m[x]]

\* Array.prototype.indexOf, 0-based; -1 when the element is absent.
indexOf(arr, x) ==
  IF \E p \in DOMAIN arr : arr[p] = x
    THEN (CHOOSE p \in DOMAIN arr : arr[p] = x /\ \A q \in 1..(p - 1) : arr[q] # x) - 1
    ELSE -1

\* Array.prototype.splice(start, 1) with a 0-based start: a negative start
\* counts from the end of the array.
splice(arr, start) ==
  LET actual == IF start < 0 THEN Max(Len(arr) + start, 0) ELSE Min(start, Len(arr))
  IN IF actual >= Len(arr) THEN arr
     ELSE SubSeq(arr, 1, actual) \o SubSeq(arr, actual + 2, Len(arr))

\* Array.prototype.find on the node list: the position of the first node
\* with this id, 0 when there is none.
findNode(nl, id) ==
  IF \E p \in DOMAIN nl : nl[p].id = id
    THEN CHOOSE p \in DOMAIN nl : nl[p].id = id /\ \A q \in 1..(p - 1) : nl[q].id # id
    ELSE 0

\* ----------------------------------------------------------- clarkWright
\* depot.capacity ?? VEHICLE_INITIAL_CAPACITY
Capacity(d) ==
  IF d.capacity = {} THEN VEHICLE_INITIAL_CAPACITY ELSE CHOOSE c \in d.capacity : TRUE

\* Variant of DemandEffect: the two arms of the conditional swapped.
DemandEffectSwapped(node) == IF node.type = ORDER THEN -node.demand ELSE node.demand

\* node.type === NodeType.ORDER ? node.demand : -node.demand
DemandEffect(node) == IF node.type = ORDER THEN node.demand ELSE -node.demand

\* Variant of CapacityFits: the guard left out.
CapacityFitsAlways(c) == TRUE

\* newCapacityUsed >= 0
CapacityFits(c) == c >= 0

\* The state one clarkWright call works on.
CWState(r, h, m, o) == [routes |-> r, heap |-> h, nodeToRoute |-> m, outcome |-> o]

\* Step 3a: neither i nor j has a route.
PairStep(st, d, sv, ni, nj) ==
  LET newCapacityUsed == Capacity(d) - DemandEffect(ni) - DemandEffect(nj)
      newRoute == Len(st.heap) + 1
  IN IF CapacityFits(newCapacityUsed)
       THEN CWState(Append(st.routes, newRoute),
                    Append(st.heap, Route(<<sv.i, sv.j>>, newCapacityUsed, Capacity(d))),
                    MapSet(MapSet(st.nodeToRoute, sv.i, newRoute), sv.j, newRoute),
                    "paired")
       ELSE [st EXCEPT !.outcome = "pair_rejected"]

\* route.nodes[0] == anchor ? unshift(added) : push(added)
AttachNodes(nodes, anchor, added) ==
  IF nodes[1] = anchor THEN <<added>> \o nodes ELSE Append(nodes, added)

\* Step 3b: the node `anchor' is in the route at address r, the node
\* `added' (id addedId) has no route.
AttachStep(st, r, anchor, addedId, added) ==
  LET newCapacityUsed == st.heap[r].capacityUsed - DemandEffect(added)
  IN IF CapacityFits(newCapacityUsed)
       THEN CWState(st.routes,
                    [st.heap EXCEPT ![r].nodes = AttachNodes(@, anchor, addedId),
                                    ![r].capacityUsed = newCapacityUsed],
                    MapSet(st.nodeToRoute, addedId, r),
                    IF st.heap[r].nodes[1] = anchor THEN "prepended" ELSE "appended")
       ELSE [st EXCEPT !.outcome = "attach_rejected"]

\* route_i.nodes[route_i.nodes.length - 1] == saving.i && route_j.nodes[0] == saving.j
TailToHead(ri, rj, sv) == ri.nodes[Len(ri.nodes)] = sv.i /\ rj.nodes[1] = sv.j

\* Variant of HeadToTail: the last node of route_j is not looked at.
HeadToTailAnyTail(ri, rj, sv) == ri.nodes[1] = sv.i

\* route_i.nodes[0] == saving.i && route_j.nodes[route_j.nodes.length - 1] == saving.j
HeadToTail(ri, rj, sv) == ri.nodes[1] = sv.i /\ rj.nodes[Len(rj.nodes)] = sv.j

\* Step 3c: i and j are in the routes at two different addresses a and b.
ConcatStep(st, sv, a, b, ni, nj) ==
  LET route_i == st.heap[a]
      route_j == st.heap[b]
      newCapacityForRouteI == route_i.capacityUsed - DemandEffect(nj)
      newCapacityForRouteJ == route_j.capacityUsed - DemandEffect(ni)
  IN IF ~(CapacityFits(newCapacityForRouteI) /\ CapacityFits(newCapacityForRouteJ))
       THEN [st EXCEPT !.outcome = "concat_rejected_capacity"]
     ELSE IF TailToHead(route_i, route_j, sv)
       THEN CWState(splice(st.routes, indexOf(st.routes, b)),
                    [st.heap EXCEPT ![a].nodes = route_i.nodes \o route_j.nodes,
                                    ![a].capacityUsed = newCapacityForRouteI],
                    MapSet(st.nodeToRoute, sv.j, a),
                    "concat_tail_head")
     ELSE IF HeadToTail(route_i, route_j, sv)
       THEN CWState(splice(st.routes, indexOf(st.routes, b)),
                    [st.heap EXCEPT ![a].nodes = route_j.nodes \o route_i.nodes,
                                    ![a].capacityUsed = newCapacityForRouteJ],
                    MapSet(st.nodeToRoute, sv.i, a),
                    "concat_head_tail")
     ELSE [st EXCEPT !.outcome = "concat_rejected_endpoints"]

\* Which branch of the if/else chain of the savings loop a saving takes.
SavingCase(st, nl, sv) ==
  LET a == MapGet(st.nodeToRoute, sv.i)
      b == MapGet(st.nodeToRoute, sv.j)
  IN IF findNode(nl, sv.i) = 0 \/ findNode(nl, sv.j) = 0 THEN "continue"
     ELSE IF a = 0 /\ b = 0 THEN "3a"
     ELSE IF a # 0 /\ b = 0 THEN "3b_i"
     ELSE IF a = 0 /\ b # 0 THEN "3b_j"
     ELSE IF a # b THEN "3c"
     ELSE "same_route"

\* One iteration of `for (let saving of savingsList)'.
SavingStep(st, d, nl, sv) ==
  LET a == MapGet(st.nodeToRoute, sv.i)
      b == MapGet(st.nodeToRoute, sv.j)
      ni == nl[findNode(nl, sv.i)]
      nj == nl[findNode(nl, sv.j)]
      c == SavingCase(st, nl, sv)
  IN CASE c = "3a" -> PairStep(st, d, sv, ni, nj)
       [] c = "3b_i" -> AttachStep(st, a, sv.i, sv.j, nj)
       [] c = "3b_j" -> AttachStep(st, b, sv.j, sv.i, ni)
       [] c = "3c" -> ConcatStep(st, sv, a, b, ni, nj)
       [] c = "same_route" -> [st EXCEPT !.outcome = "same_route"]
       [] OTHER -> [st EXCEPT !.outcome = "continue"]

\* Variant of FitsAlone: Math.abs left out.
FitsAloneSigned(d, node) == node.demand <= Capacity(d)

\* node.demand <= capacity (ORDER), Math.abs(node.demand) <= capacity (VENDOR)
FitsAlone(d, node) ==
  IF node.type = ORDER THEN node.demand <= Capacity(d)
  ELSE Abs(node.demand) <= Capacity(d)

\* The capacityUsed of a one-node route: capacity - demand (ORDER),
\* capacity + demand (VENDOR).
AloneCapacity(d, node) ==
  IF node.type = ORDER THEN Capacity(d) - node.demand ELSE Capacity(d) + node.demand

\* One iteration of the loop over the nodes that have no route.
FallbackStep(st, d, node) ==
  LET newRoute == Len(st.heap) + 1
  IN IF node.id \in DOMAIN st.nodeToRoute THEN [st EXCEPT !.outcome = "has_route"]
     ELSE IF FitsAlone(d, node)
       THEN CWState(Append(st.routes, newRoute),
                    Append(st.heap, Route(<<node.id>>, AloneCapacity(d, node), Capacity(d))),
                    MapSet(st.nodeToRoute, node.id, newRoute),
                    "fallback")
     ELSE [st EXCEPT !.outcome = "unrouted"]

\* `return routes': the Route objects the routes array holds.
Returned(st) == [x \in DOMAIN st.routes |-> st.heap[st.routes[x]]]

\* ------------------------------------------------- inputs of clarkWright
\* Node ids are distinct; the node at position p of the list has id NodeId(p).
NodeId(p) == 10 + p

Capacities == {{}, {4}}

OrderDemands == {-5, 1, 6}

VendorDemands == {-6}

Positions == {-1, 1}

\* What a node may be, apart from its id: an order anywhere, or a vendor.
NodeKinds ==
  {NodeV(0, ORDER, dm, ps, 0) : dm \in OrderDemands, ps \in Positions}
    \cup {NodeV(0, VENDOR, dm, 0, 0) : dm \in VendorDemands}

NodeLists(n) ==
  {[p \in 1..n |-> [ks[p] EXCEPT !.id = NodeId(p)]] : ks \in [1..n -> NodeKinds]}

Step(op, i, j, a, b) == [op |-> op, i |-> i, j |-> j, a |-> a, b |-> b]

InitCall ==
  /\ savingsList = <<>>
  /\ routes = <<>>
  /\ heap = <<>>
  /\ nodeToRoute = <<>>
  /\ pc = "start"
  /\ k = 0
  /\ last = Step("init", 0, 0, 0, 0)

\* No multiDepotVehicleRouter call is running.
NoRouter ==
  /\ vehicleList = <<>>
  /\ vendorList = <<>>
  /\ orderList = <<>>
  /\ depotClusters = <<>>
  /\ depotRoutes = <<>>
  /\ mpc = "idle"
  /\ mk = 0

\* The scenario of three orders A (demand 3), B (demand 4) and C (demand 5)
\* under capacity 10, A and B on one side of the depot and C on the other, in
\* every order of the list.
ScenarioKinds ==
  {<<NodeV(0, ORDER, 3, sd * pa, 0), NodeV(0, ORDER, 4, sd * pb, 0),
     NodeV(0, ORDER, 5, (0 - sd) * pz, 0)>> :
     sd \in {-1, 1}, pa \in {1, 2}, pb \in {1, 2}, pz \in {1, 2}}

ScenarioLists ==
  {[p \in 1..3 |-> [ks[pm[p]] EXCEPT !.id = NodeId(p)]] :
     ks \in ScenarioKinds,
     pm \in {f \in [1..3 -> 1..3] : \A x, y \in 1..3 : f[x] = f[y] => x = y}}

Init ==
  /\ \/ /\ depot \in {Vehicle(1, 0, c) : c \in Capacities}
        /\ \E n \in 0..MaxNodes : nodeList \in NodeLists(n)
     \/ /\ depot \in {Vehicle(1, 0, c) : c \in {{}, {10}}}
        /\ nodeList \in ScenarioLists
  /\ InitCall
  /\ NoRouter

\* ------------------------------------------------ actions of clarkWright
Current == CWState(routes, heap, nodeToRoute, last.op)

AfterSavings == IF nodeList = <<>> THEN "return" ELSE "fallback"

\* Step 1: const savingsList = calculateSavings(depot, nodeList)
Calculate ==
  /\ pc = "start"
  /\ savingsList' = calculateSavings(depot, nodeList)
  /\ pc' = "rank"
  /\ last' = Step("calculate", 0, 0, 0, 0)
  /\ UNCHANGED <<depot, nodeList, routes, heap, nodeToRoute, k>>
  /\ UNCHANGED mdVars

\* Step 2: savingsList.sort((a, b) => b.saving - a.saving)
Rank ==
  /\ pc = "rank"
  /\ savingsList' = SortDescending(savingsList)
  /\ pc' = IF savingsList' = <<>> THEN AfterSavings ELSE "savings"
  /\ k' = 1
  /\ last' = Step("rank", 0, 0, 0, 0)
  /\ UNCHANGED <<depot, nodeList, routes, heap, nodeToRoute>>
  /\ UNCHANGED mdVars

\* One iteration of the savings loop, taking the branch `branch'.
ProcessSaving(branch) ==
  /\ pc = "savings"
  /\ SavingCase(Current, nodeList, savingsList[k]) = branch
  /\ LET sv == savingsList[k]
         st == SavingStep(Current, depot, nodeList, sv)
     IN /\ routes' = st.routes
        /\ heap' = st.heap
        /\ nodeToRoute' = st.nodeToRoute
        /\ last' = Step(st.outcome, sv.i, sv.j,
                        MapGet(nodeToRoute, sv.i), MapGet(nodeToRoute, sv.j))
  /\ IF k = Len(savingsList)
       THEN pc' = AfterSavings /\ k' = 1
       ELSE pc' = pc /\ k' = k + 1
  /\ UNCHANGED <<depot, nodeList, savingsList>>
  /\ UNCHANGED mdVars

\* Step 3a: neither node has a route.
PairUnassigned == pc = "savings" /\ ProcessSaving("3a")

\* Step 3b: i has a route, j has none.
AttachToRouteOfI == pc = "savings" /\ ProcessSaving("3b_i")

\* Step 3b: j has a route, i has none.
AttachToRouteOfJ == pc = "savings" /\ ProcessSaving("3b_j")

\* Step 3c: i and j have different routes.
ConcatenateRoutes == pc = "savings" /\ ProcessSaving("3c")

\* No branch: i and j have the same route.
SkipSameRoute == pc = "savings" /\ ProcessSaving("same_route")

\* One iteration of the loop over the remaining nodes.
Fallback ==
  /\ pc = "fallback"
  /\ LET st == FallbackStep(Current, depot, nodeList[k])
     IN /\ routes' = st.routes
        /\ heap' = st.heap
        /\ nodeToRoute' = st.nodeToRoute
        /\ last' = Step(st.outcome, nodeList[k].id, 0, 0, 0)
  /\ IF k = Len(nodeList)
       THEN pc' = "return" /\ k' = 0
       ELSE pc' = pc /\ k' = k + 1
  /\ UNCHANGED <<depot, nodeList, savingsList>>
  /\ UNCHANGED mdVars

\* return routes
Return ==
  /\ pc = "return"
  /\ pc' = "done"
  /\ last' = Step("return", 0, 0, 0, 0)
  /\ UNCHANGED <<depot, nodeList, savingsList, routes, heap, nodeToRoute, k>>
  /\ UNCHANGED mdVars

Next ==
  \/ Calculate
  \/ Rank
  \/ PairUnassigned
  \/ AttachToRouteOfI
  \/ AttachToRouteOfJ
  \/ ConcatenateRoutes
  \/ SkipSameRoute
  \/ Fallback
  \/ Return

Spec == Init /\ [][Next]_vars

\* The whole call as a function: the Route objects clarkWright returns.
RECURSIVE RunSavings(_, _, _, _, _)
RunSavings(st, d, nl, sl, x) ==
  IF x > Len(sl) THEN st ELSE RunSavings(SavingStep(st, d, nl, sl[x]), d, nl, sl, x + 1)

RECURSIVE RunFallback(_, _, _, _)
RunFallback(st, d, nl, x) ==
  IF x > Len(nl) THEN st ELSE RunFallback(FallbackStep(st, d, nl[x]), d, nl, x + 1)

clarkWright(d, nl) ==
  Returned(RunFallback(
    RunSavings(CWState(<<>>, <<>>, <<>>, "init"), d, nl,
               SortDescending(calculateSavings(d, nl)), 1),
    d, nl, 1))

\* ------------------------------------------------------------- clusters
\* type VendorOrderCluster.
VendorOrderCluster(vendor, orders) == [vendor |-> vendor, orders |-> orders]

\* Variant of isAssociatedWithVendor: every order goes with every vendor.
isAssociatedWithAnyVendor(order, vendor) == order.type = ORDER

\* order.vendorId === vendor.id (an order without vendorId has vendorId 0,
\* which is no node's id)
isAssociatedWithVendor(order, vendor) == order.vendorId = vendor.id

\* Variant of CloserThan: <= in place of <.
CloserOrEqual(dist, nearest) == nearest.id = {} \/ dist <= nearest.distance

\* _distance < nearestDepotDistance, where the nearest distance starts at
\* Infinity and the nearest id at null (the empty set).
CloserThan(dist, nearest) == nearest.id = {} \/ dist < nearest.distance

RECURSIVE NearestFrom(_, _, _, _)
NearestFrom(dl, location, x, nearest) ==
  IF x > Len(dl) THEN nearest.id
  ELSE NearestFrom(dl, location, x + 1,
                   IF CloserThan(distance(dl[x], location), nearest)
                     THEN [id |-> {dl[x].id}, distance |-> distance(dl[x], location)]
                     ELSE nearest)

\* The id of the nearest depot in a one-element set, or the empty set (null).
getNearestDepot(dl, location) ==
  NearestFrom(dl, location, 1, [id |-> {}, distance |-> 0])

\* One iteration of formDepotClusters' loop over the vendors.
FormClusterStep(clusters, dl, vendor, ol) ==
  LET associatedOrders == SelectSeq(ol, LAMBDA o : isAssociatedWithVendor(o, vendor))
      nearestDepotId == getNearestDepot(dl, vendor)
  IN IF nearestDepotId = {} THEN clusters
     ELSE LET id == CHOOSE x \in nearestDepotId : TRUE
          IN MapSet(clusters, id,
                    Append(IF id \in DOMAIN clusters THEN clusters[id] ELSE <<>>,
                           VendorOrderCluster(vendor, associatedOrders)))

RECURSIVE FormFrom(_, _, _, _, _)
FormFrom(clusters, dl, vl, ol, x) ==
  IF x > Len(vl) THEN clusters
  ELSE FormFrom(FormClusterStep(clusters, dl, vl[x], ol), dl, vl, ol, x + 1)

formDepotClusters(dl, vl, ol) == FormFrom(<<>>, dl, vl, ol, 1)

\* Variant of nodesForCluster: the orders without the vendor.
nodesForClusterOrders(cluster) == cluster.orders

\* [cluster.vendor, ...cluster.orders]
nodesForCluster(cluster) == <<cluster.vendor>> \o cluster.orders

RECURSIVE RoutesOfClusters(_, _, _)
RoutesOfClusters(d, clusters, x) ==
  IF x > Len(clusters) THEN <<>>
  ELSE clarkWright(d, nodesForCluster(clusters[x])) \o RoutesOfClusters(d, clusters, x + 1)

\* Variant of RouteDepotStep: a depot without clusters gets an empty list.
RouteDepotStepAlways(dr, d, clusters) ==
  MapSet(dr, d.id,
         IF d.id \in DOMAIN clusters THEN RoutesOfClusters(d, clusters[d.id], 1) ELSE <<>>)

\* One iteration of routeWithinClusters' loop over the depots.
RouteDepotStep(dr, d, clusters) ==
  IF d.id \in DOMAIN clusters
    THEN MapSet(dr, d.id, RoutesOfClusters(d, clusters[d.id], 1))
    ELSE dr

RECURSIVE RouteFrom(_, _, _, _)
RouteFrom(dr, dl, clusters, x) ==
  IF x > Len(dl) THEN dr
  ELSE RouteFrom(RouteDepotStep(dr, dl[x], clusters), dl, clusters, x + 1)

routeWithinClusters(dl, clusters) == RouteFrom(<<>>, dl, clusters, 1)

multiDepotVehicleRouter(dl, vl, ol) ==
  routeWithinClusters(dl, formDepotClusters(dl, vl, ol))

\* ------------------------------------- inputs of multiDepotVehicleRouter
DepotId(p) == p

VendorId(p) == 20 + p

OrderId(p) == 10 + p

\* A vendor id that no vendor of the list has.
UnknownVendor == VendorId(0)

DepotPositions == {-1, 1, 3}

VendorPositions == {0, 2}

RouterOrderDemands == {2, 6}

DepotLists(n) ==
  {[p \in 1..n |-> Vehicle(DepotId(p), f[p][1], f[p][2])] :
     f \in [1..n -> DepotPositions \X Capacities]}

VendorLists(n) ==
  {[p \in 1..n |-> NodeV(VendorId(p), VENDOR, -3, f[p], 0)] :
     f \in [1..n -> VendorPositions]}

OrderLists(n, nv) ==
  {[p \in 1..n |-> NodeV(OrderId(p), ORDER, f[p][1], 1, f[p][2])] :
     f \in [1..n -> RouterOrderDemands \X ({VendorId(v) : v \in 1..nv} \cup {UnknownVendor})]}

\* No clarkWright call is stepped through.
NoCall ==
  /\ depot = Vehicle(0, 0, {})
  /\ nodeList = <<>>
  /\ savingsList = <<>>
  /\ routes = <<>>
  /\ heap = <<>>
  /\ nodeToRoute = <<>>
  /\ pc = "idle"
  /\ k = 0
  /\ last = Step("init", 0, 0, 0, 0)

InitRouter ==
  /\ \E nd \in 0..MaxEntities : \E nv \in 0..(MaxEntities - nd) :
       \E no \in 0..(MaxEntities - nd - nv) :
         /\ vehicleList \in DepotLists(nd)
         /\ vendorList \in VendorLists(nv)
         /\ orderList \in OrderLists(no, nv)
  /\ depotClusters = <<>>
  /\ depotRoutes = <<>>
  /\ mpc = "start"
  /\ mk = 0
  /\ NoCall

\* ------------------------------------ actions of multiDepotVehicleRouter
AfterClusters == IF vehicleList = <<>> THEN "return" ELSE "route"

\* multiDepotVehicleRouter calls formDepotClusters.
CallRouter ==
  /\ mpc = "start"
  /\ mpc' = IF vendorList = <<>> THEN AfterClusters ELSE "cluster"
  /\ mk' = 1
  /\ UNCHANGED <<vehicleList, vendorList, orderList, depotClusters, depotRoutes>>
  /\ UNCHANGED cwVars

\* One iteration of formDepotClusters' loop.
FormCluster ==
  /\ mpc = "cluster"
  /\ depotClusters' = FormClusterStep(depotClusters, vehicleList, vendorList[mk], orderList)
  /\ IF mk = Len(vendorList)
       THEN mpc' = AfterClusters /\ mk' = 1
       ELSE mpc' = mpc /\ mk' = mk + 1
  /\ UNCHANGED <<vehicleList, vendorList, orderList, depotRoutes>>
  /\ UNCHANGED cwVars

\* One iteration of routeWithinClusters' loop, with its clarkWright calls.
RouteDepot ==
  /\ mpc = "route"
  /\ depotRoutes' = RouteDepotStep(depotRoutes, vehicleList[mk], depotClusters)
  /\ IF mk = Len(vehicleList)
       THEN mpc' = "return" /\ mk' = 0
       ELSE mpc' = mpc /\ mk' = mk + 1
  /\ UNCHANGED <<vehicleList, vendorList, orderList, depotClusters>>
  /\ UNCHANGED cwVars

\* return depotRoutes
ReturnRouter ==
  /\ mpc = "return"
  /\ mpc' = "done"
  /\ UNCHANGED <<vehicleList, vendorList, orderList, depotClusters, depotRoutes, mk>>
  /\ UNCHANGED cwVars

NextRouter ==
  \/ CallRouter
  \/ FormCluster
  \/ RouteDepot
  \/ ReturnRouter

SpecRouter == InitRouter /\ [][NextRouter]_vars

\* ------------------------------------------- a wider family of node lists
\* Orders only, each of demand 1, under the default capacity, two more than
\* MaxNodes and on four positions: enough for three routes of two nodes.
WidePositions == {-2, -1, 1, 2}

WideLists ==
  {[p \in 1..(MaxNodes + 2) |-> NodeV(NodeId(p), ORDER, 1, f[p], 0)] :
     f \in [1..(MaxNodes + 2) -> WidePositions]}

InitWide ==
  /\ depot = Vehicle(1, 0, {})
  /\ nodeList \in WideLists
  /\ InitCall
  /\ NoRouter

SpecWide == InitWide /\ [][Next]_vars

\* ------------------------------------------------- vocabulary of the claims
\* The Route objects of the routes array, in order.
Active == Returned(Current)

\* The node of the list with this id.
NodeOf(id) == nodeList[findNode(nodeList, id)]

\* The demand a node takes from the vehicle: an order consumes its demand, a
\* vendor releases it.
Effect(node) == IF node.type = ORDER THEN node.demand ELSE 0 - node.demand

RECURSIVE SumOfEffects(_)
SumOfEffects(ids) ==
  IF ids = <<>> THEN 0 ELSE Effect(NodeOf(ids[1])) + SumOfEffects(Tail(ids))

\* How often an id occurs in a sequence of ids.
Occurrences(ids, id) == Cardinality({x \in DOMAIN ids : ids[x] = id})

\* How often an id occurs in the active routes, over all of them.
RECURSIVE ActiveOccurrences(_, _)
ActiveOccurrences(rs, id) ==
  IF rs = <<>> THEN 0
  ELSE Occurrences(rs[1].nodes, id) + ActiveOccurrences(Tail(rs), id)

Ids == {nodeList[p].id : p \in DOMAIN nodeList}

\* No order of the list has a negative demand.
NoNegativeOrder ==
  \A p \in DOMAIN nodeList : nodeList[p].type = ORDER => nodeList[p].demand >= 0

\* The depot's capacity, 10 when it has none.
DepotCapacity == IF depot.capacity = {} THEN 10 ELSE CHOOSE c \in depot.capacity : TRUE

\* C1: every returned Route carries no more than the depot's capacity: the
\* demand effects of its member nodes sum to at most depot.capacity (10 when
\* the depot has none).  Stated for the lists without a negative order demand.
C1_RouteWithinCapacity ==
  (pc = "done" /\ NoNegativeOrder) =>
    \A x \in DOMAIN Active : SumOfEffects(Active[x].nodes) <= DepotCapacity

\* C2: at every point of the savings loop and in the output, no node id occurs
\* more than once in the active routes: not in two routes, not twice in one.
C2_NoNodeTwice ==
  \A id \in Ids : ActiveOccurrences(Active, id) <= 1

\* C3: every node whose own demand fits the capacity (ORDER: demand <=
\* capacity; VENDOR: |demand| <= capacity) is a member of a returned Route.
\* Stated for the lists without a negative order demand.
C3_FittingNodeRouted ==
  (pc = "done" /\ NoNegativeOrder) =>
    \A p \in DOMAIN nodeList :
      LET node == nodeList[p]
          fits == IF node.type = ORDER THEN node.demand <= DepotCapacity
                  ELSE node.demand <= DepotCapacity /\ 0 - node.demand <= DepotCapacity
      IN fits => ActiveOccurrences(Active, node.id) >= 1

\* The saving about to be processed is one the code rejects for capacity: the
\* capacity it computes for the pairing, the attachment or the concatenation
\* is negative.
RejectedForCapacity ==
  /\ pc = "savings"
  /\ LET sv == savingsList[k]
         a == IF sv.i \in DOMAIN nodeToRoute THEN nodeToRoute[sv.i] ELSE 0
         b == IF sv.j \in DOMAIN nodeToRoute THEN nodeToRoute[sv.j] ELSE 0
         ei == Effect(NodeOf(sv.i))
         ej == Effect(NodeOf(sv.j))
     IN \/ a = 0 /\ b = 0 /\ DepotCapacity - ei - ej < 0
        \/ a # 0 /\ b = 0 /\ heap[a].capacityUsed - ej < 0
        \/ a = 0 /\ b # 0 /\ heap[b].capacityUsed - ei < 0
        \/ a # 0 /\ b # 0 /\ a # b
             /\ (heap[a].capacityUsed - ej < 0 \/ heap[b].capacityUsed - ei < 0)

\* C4: every Route ever created has capacityUsed >= 0, and a step that rejects
\* a pairing, an attachment or a concatenation because its computed capacity
\* is negative leaves the route collection, every route and the index as
\* they were.
C4_CapacityUsedNeverNegative ==
  /\ [](\A a \in DOMAIN heap : heap[a].capacityUsed >= 0)
  /\ [][RejectedForCapacity => UNCHANGED <<routes, heap, nodeToRoute>>]_vars

\* C4's case: two routes exist and their concatenation was just rejected for
\* capacity.
C4_Witness ==
  /\ last.op = "concat_rejected_capacity"
  /\ Len(routes) >= 2
  /\ \A a \in DOMAIN heap : heap[a].capacityUsed >= 0

\* C5: a concatenation leaves in the surviving route exactly the node
\* sequences of the two routes, one after the other, every node of both
\* exactly once.  Stated for the lists without a negative order demand.
C5_ConcatenationExact ==
  [][(NoNegativeOrder /\ pc = "savings" /\ last'.op \in {"concat_tail_head", "concat_head_tail"}) =>
       LET a == last'.a
           b == last'.b
       IN /\ heap'[a].nodes \in {heap[a].nodes \o heap[b].nodes,
                                heap[b].nodes \o heap[a].nodes}
          /\ \A id \in Range(heap[a].nodes) \cup Range(heap[b].nodes) :
               Occurrences(heap'[a].nodes, id) = 1]_vars

\* A node whose own demand magnitude exceeds the capacity.
ExceedsCapacity(node) ==
  IF node.type = ORDER THEN node.demand > DepotCapacity
  ELSE node.demand > DepotCapacity \/ 0 - node.demand > DepotCapacity

\* C6 as stated: no returned Route has a member whose own demand magnitude
\* exceeds the capacity, whatever the signed demands of the other nodes.
C6_ExceedingNodeUnrouted ==
  pc = "done" =>
    \A p \in DOMAIN nodeList :
      ExceedsCapacity(nodeList[p]) => ActiveOccurrences(Active, nodeList[p].id) = 0

\* C6 amended: when no ORDER of the list has a negative demand, no returned
\* Route has a member whose own demand magnitude exceeds the capacity.
C6_ExceedingNodeUnroutedAmended ==
  (pc = "done" /\ NoNegativeOrder) =>
    \A p \in DOMAIN nodeList :
      ExceedsCapacity(nodeList[p]) => ActiveOccurrences(Active, nodeList[p].id) = 0

\* C6's case: an order and a vendor that both exceed the capacity were left
\* out while other nodes were paired into a route.
C6_Witness ==
  /\ pc = "done"
  /\ NoNegativeOrder
  /\ \E p, q \in DOMAIN nodeList :
       /\ nodeList[p].type = ORDER /\ ExceedsCapacity(nodeList[p])
       /\ nodeList[q].type = VENDOR /\ ExceedsCapacity(nodeList[q])
  /\ \E x \in DOMAIN Active : Len(Active[x].nodes) >= 2

\* ------------------------------------------------------ nearest depot
\* The position in the depot list of the depot a vendor belongs to: the first
\* depot of the list at the least distance.
NearestPosition(v) ==
  CHOOSE q \in DOMAIN vehicleList :
    /\ \A r \in DOMAIN vehicleList :
         Abs(vehicleList[r].pos - v.pos) >= Abs(vehicleList[q].pos - v.pos)
    /\ \A r \in 1..(q - 1) :
         Abs(vehicleList[r].pos - v.pos) > Abs(vehicleList[q].pos - v.pos)

\* Where the cluster of a vendor is: the pairs (depot id, position in that
\* depot's cluster list).
ClusterPlaces(v) ==
  {kx \in UNION {{<<key, x>> : x \in DOMAIN depotClusters[key]} : key \in DOMAIN depotClusters} :
     depotClusters[kx[1]][kx[2]].vendor = v}

ClustersFormed == mpc \in {"route", "return", "done"}

\* C7: with a non-empty depot list, every vendor is in exactly one depot's
\* cluster list, that depot is the first of the list among those at the least
\* distance from the vendor (so none is strictly closer), and the cluster holds
\* exactly the orders whose vendorId is the vendor's id, in the order of the list.
C7_NearestDepotCluster ==
  (ClustersFormed /\ vehicleList # <<>>) =>
    \A p \in DOMAIN vendorList :
      LET v == vendorList[p]
      IN /\ Cardinality(ClusterPlaces(v)) = 1
         /\ \A kx \in ClusterPlaces(v) :
              /\ kx[1] = vehicleList[NearestPosition(v)].id
              /\ depotClusters[kx[1]][kx[2]].orders
                   = SelectSeq(orderList, LAMBDA o : o.vendorId = v.id)

\* C7's case: a vendor is equally far from two depots, another vendor went to
\* another depot, and an order of the list belongs to a clustered vendor.
C7_Witness ==
  /\ mpc = "done"
  /\ Cardinality(DOMAIN depotClusters) >= 2
  /\ \E p \in DOMAIN vendorList : \E q, r \in DOMAIN vehicleList :
       /\ q < r
       /\ q = NearestPosition(vendorList[p])
       /\ Abs(vehicleList[r].pos - vendorList[p].pos)
            = Abs(vehicleList[q].pos - vendorList[p].pos)
  /\ \E key \in DOMAIN depotClusters : \E x \in DOMAIN depotClusters[key] :
       depotClusters[key][x].orders # <<>>

\* C8: the keys of the returned mapping are exactly the ids of the depots
\* that are the nearest depot of some vendor; a depot without a cluster has no
\* key, and with no depot at all the mapping is empty.
C8_KeysAreNearestDepots ==
  mpc = "done" =>
    /\ DOMAIN depotRoutes
         = IF vehicleList = <<>> THEN {}
           ELSE {vehicleList[NearestPosition(vendorList[p])].id : p \in DOMAIN vendorList}
    /\ (vehicleList = <<>> /\ vendorList # <<>>) => depotRoutes = <<>>

\* C8's case: one depot has a key and another depot, nearest to no vendor,
\* has none.
C8_Witness ==
  /\ mpc = "done"
  /\ DOMAIN depotRoutes # {}
  /\ \E q \in DOMAIN vehicleList : vehicleList[q].id \notin DOMAIN depotRoutes

\* ----------------------------------------------------- calculateSavings
OrderPositions == {p \in DOMAIN nodeList : nodeList[p].type = ORDER}

\* The position of the node with this id in the node list.
PositionOf(id) == CHOOSE p \in DOMAIN nodeList : nodeList[p].id = id

\* C9: calculateSavings returns one record for every pair of distinct ORDER
\* nodes (n*(n-1)/2 for n orders), none with a VENDOR, in the order of the
\* pairs (i, j), i < j, of positions of the node list.
C9_SavingsPerOrderPair ==
  pc = "rank" =>
    LET n == Cardinality(OrderPositions)
    IN /\ 2 * Len(savingsList) = n * (n - 1)
       /\ \A p, q \in OrderPositions :
            p < q => Cardinality({x \in DOMAIN savingsList :
                                    /\ savingsList[x].i = nodeList[p].id
                                    /\ savingsList[x].j = nodeList[q].id}) = 1
       /\ \A x \in DOMAIN savingsList :
            /\ PositionOf(savingsList[x].i) \in OrderPositions
            /\ PositionOf(savingsList[x].j) \in OrderPositions
            /\ PositionOf(savingsList[x].i) < PositionOf(savingsList[x].j)
       /\ \A x, y \in DOMAIN savingsList :
            x < y =>
              \/ PositionOf(savingsList[x].i) < PositionOf(savingsList[y].i)
              \/ /\ PositionOf(savingsList[x].i) = PositionOf(savingsList[y].i)
                 /\ PositionOf(savingsList[x].j) < PositionOf(savingsList[y].j)

\* C9's case: a list with a vendor between orders, and at least three savings.
C9_Witness ==
  /\ pc = "rank"
  /\ Len(savingsList) >= 3
  /\ \E p, q, r \in DOMAIN nodeList :
       /\ p < q /\ q < r
       /\ nodeList[p].type = ORDER /\ nodeList[q].type = VENDOR /\ nodeList[r].type = ORDER

\* ------------------------------------------------ the scenario A, B, C
\* The node list is the orders A (demand 3), B (demand 4) and C (demand 5).
ScenarioNode(dm) == nodeList[CHOOSE p \in DOMAIN nodeList : nodeList[p].demand = dm]

IsScenario ==
  /\ DepotCapacity = 10
  /\ Len(nodeList) = 3
  /\ \A p \in DOMAIN nodeList : nodeList[p].type = ORDER
  /\ {nodeList[p].demand : p \in DOMAIN nodeList} = {3, 4, 5}
  /\ LET A == ScenarioNode(3)
         B == ScenarioNode(4)
         C == ScenarioNode(5)
         sav(x, y) == Abs(x.pos - depot.pos) + Abs(y.pos - depot.pos) - Abs(x.pos - y.pos)
     IN /\ (A.pos - depot.pos) * (B.pos - depot.pos) > 0
        /\ (A.pos - depot.pos) * (C.pos - depot.pos) < 0
        /\ sav(A, B) > sav(A, C)
        /\ sav(A, B) > sav(B, C)

\* C10: in the scenario clarkWright returns exactly two routes, one of two of
\* the three nodes with combined demand at most 10 and one of a single node;
\* no route holds all three.
C10_ScenarioTwoRoutes ==
  (pc = "done" /\ IsScenario) =>
    /\ Len(Active) = 2
    /\ \E x, y \in DOMAIN Active :
         /\ Len(Active[x].nodes) = 2
         /\ Active[x].nodes[1] # Active[x].nodes[2]
         /\ SumOfEffects(Active[x].nodes) <= 10
         /\ Len(Active[y].nodes) = 1
         /\ Active[y].nodes[1] \notin Range(Active[x].nodes)
    /\ \A x \in DOMAIN Active : Len(Active[x].nodes) < 3

\* C10's case: the scenario has run to its end, with C ahead of A and B in
\* the list.
C10_Witness ==
  /\ pc = "done"
  /\ IsScenario
  /\ nodeList[1].demand = 5

\* ------------------------------- the scenario of two depots and one order
\* Two depots, one vendor whose nearest depot is the first, and one order of
\* demand 2 that references the vendor.
IsOneOrderScenario ==
  /\ Len(vehicleList) = 2
  /\ Len(vendorList) = 1
  /\ Len(orderList) = 1
  /\ orderList[1].demand = 2
  /\ orderList[1].vendorId = vendorList[1].id
  /\ NearestPosition(vendorList[1]) = 1

\* The capacity of a depot of the list, 10 when it has none.
CapacityOfDepot(d) == IF d.capacity = {} THEN 10 ELSE CHOOSE c \in d.capacity : TRUE

\* The one-node route of a node that found no partner, when the node alone fits.
AloneRoutes(d, node) ==
  IF Abs(node.demand) <= CapacityOfDepot(d)
    THEN <<[nodes |-> <<node.id>>,
            capacityUsed |-> IF node.type = ORDER
                               THEN CapacityOfDepot(d) - node.demand
                               ELSE CapacityOfDepot(d) + node.demand,
            vehicleCapacity |-> CapacityOfDepot(d)]>>
    ELSE <<>>

\* C11 as stated: in the scenario the result under the first depot's key is a
\* single route holding the cluster's nodes (the vendor and the order), and the
\* second depot has no key.
C11_ScenarioSingleRoute ==
  (mpc = "done" /\ IsOneOrderScenario) =>
    /\ vehicleList[1].id \in DOMAIN depotRoutes
    /\ vehicleList[2].id \notin DOMAIN depotRoutes
    /\ Len(depotRoutes[vehicleList[1].id]) = 1
    /\ Range(depotRoutes[vehicleList[1].id][1].nodes)
         = {vendorList[1].id, orderList[1].id}

\* C11, amended: in the scenario the cluster is assigned to the first depot and
\* the second depot has no key, but the result under the first depot's key is
\* not one route: it is a one-node route of the vendor followed by a one-node
\* route of the order, each present when its own demand fits the depot's
\* capacity, and no route holds both nodes.
C11_ScenarioOneNodeRoutes ==
  (mpc = "done" /\ IsOneOrderScenario) =>
    /\ depotClusters[vehicleList[1].id]
         = <<[vendor |-> vendorList[1], orders |-> orderList]>>
    /\ DOMAIN depotRoutes = {vehicleList[1].id}
    /\ vehicleList[2].id # vehicleList[1].id
    /\ depotRoutes[vehicleList[1].id]
         = AloneRoutes(vehicleList[1], vendorList[1])
             \o AloneRoutes(vehicleList[1], orderList[1])

\* C11's case: the scenario has run to its end and the vendor and the order
\* both came back, with the two depots equally far from the vendor.
C11_Witness ==
  /\ mpc = "done"
  /\ IsOneOrderScenario
  /\ Len(depotRoutes[vehicleList[1].id]) = 2
  /\ Abs(vehicleList[1].pos - vendorList[1].pos)
       = Abs(vehicleList[2].pos - vendorList[1].pos)

\* ------------------------------------------------- the order of the savings
\* The savings have been ranked.
Ranked == pc \in {"savings", "fallback", "return", "done"}

\* The pair of list positions a saving was produced for.
Produced(sv) == <<PositionOf(sv.i), PositionOf(sv.j)>>

\* Pair a was produced before pair b: calculateSavings runs over i, then j.
ProducedBefore(a, b) == a[1] < b[1] \/ (a[1] = b[1] /\ a[2] < b[2])

Concatenated == last.op \in {"concat_tail_head", "concat_head_tail"}

\* C13: the node-to-route index is in sync with the active routes: every id
\* in nodeToRoute maps to a Route that is in the routes array and whose nodes
\* contain the id, and after a concatenation every node of the absorbed route
\* maps to the surviving route.
C13_IndexInSync ==
  NoNegativeOrder =>
    /\ \A id \in DOMAIN nodeToRoute :
         /\ nodeToRoute[id] \in Range(routes)
         /\ id \in Range(heap[nodeToRoute[id]].nodes)
    /\ Concatenated =>
         \A id \in Range(heap[last.b].nodes) : nodeToRoute[id] = last.a

\* C14: a Route leaves the routes array only in a step that concatenates it
\* into another route, and the route that leaves is exactly the absorbed one.
C14_RemovedIsAbsorbed ==
  [][NoNegativeOrder =>
       \A r \in Range(routes) \ Range(routes') :
         /\ last'.op \in {"concat_tail_head", "concat_head_tail"}
         /\ r = last'.b
         /\ r # last'.a
         /\ Range(routes') = Range(routes) \ {r}]_vars

\* C15: when exactly one node of a saving has a route, the other node is
\* attached only if the assigned node is the first or the last node of that
\* route, at the front when it is first and at the end when it is last; when
\* it is an interior node nothing is attached and the route is unchanged.
C15_AttachAtEndpointsOnly ==
  [][(NoNegativeOrder /\ last'.op \in {"prepended", "appended", "attach_rejected"}) =>
       LET r == IF last'.a # 0 THEN last'.a ELSE last'.b
           anchor == IF last'.a # 0 THEN last'.i ELSE last'.j
           added == IF last'.a # 0 THEN last'.j ELSE last'.i
           old == heap[r].nodes
       IN /\ heap'[r].nodes # old =>
               /\ anchor \in {old[1], old[Len(old)]}
               /\ anchor = old[1] => heap'[r].nodes = <<added>> \o old
               /\ anchor # old[1] => heap'[r].nodes = Append(old, added)
          /\ anchor \notin {old[1], old[Len(old)]} =>
               UNCHANGED <<routes, heap, nodeToRoute>>]_vars

\* ------------------------------------------------- step 3c, seen from a step
\* The step taken was step 3c: both nodes had a route, at different addresses.
InStep3c ==
  last'.op \in {"concat_rejected_capacity", "concat_tail_head",
                "concat_head_tail", "concat_rejected_endpoints"}

\* The last node of the route at address a is i and the first of b is j.
EndsTailToHead(a, b, i, j) ==
  heap[a].nodes[Len(heap[a].nodes)] = i /\ heap[b].nodes[1] = j

\* The first node of the route at address a is i and the last of b is j.
EndsHeadToTail(a, b, i, j) ==
  heap[a].nodes[1] = i /\ heap[b].nodes[Len(heap[b].nodes)] = j

\* The capacity computed for the tail-to-head orientation.
CapacityTailToHead(a, j) == heap[a].capacityUsed - Effect(NodeOf(j))

\* The capacity computed for the head-to-tail orientation.
CapacityHeadToTail(b, i) == heap[b].capacityUsed - Effect(NodeOf(i))

\* The step made the route at a the sequence `nodes' with capacity c.
SurvivorBecomes(a, nodes, c) ==
  /\ heap'[a].nodes = nodes
  /\ heap'[a].capacityUsed = c

\* C16 as stated: two different routes are concatenated if and only if the
\* endpoints match one of the two orientations and the capacity resulting for
\* that orientation is non-negative; the survivor adopts that capacity; in
\* every other situation the routes, the collection and the index are unchanged.
C16_ConcatenationIff ==
  [][(NoNegativeOrder /\ InStep3c) =>
       LET a == last'.a
           b == last'.b
           i == last'.i
           j == last'.j
       IN IF EndsTailToHead(a, b, i, j) /\ CapacityTailToHead(a, j) >= 0
            THEN SurvivorBecomes(a, heap[a].nodes \o heap[b].nodes,
                                 CapacityTailToHead(a, j))
          ELSE IF /\ ~EndsTailToHead(a, b, i, j)
                  /\ EndsHeadToTail(a, b, i, j)
                  /\ CapacityHeadToTail(b, i) >= 0
            THEN SurvivorBecomes(a, heap[b].nodes \o heap[a].nodes,
                                 CapacityHeadToTail(b, i))
          ELSE UNCHANGED <<routes, heap, nodeToRoute>>]_vars

\* C16, amended: two different routes are concatenated if and only if the
\* endpoints match one of the two orientations and both computed capacities
\* (route_i's less j's demand effect, route_j's less i's demand effect) are
\* non-negative; the survivor adopts the capacity of the matching orientation;
\* in every other situation the routes, the collection and the index are
\* unchanged.
C16_ConcatenationIffBothFit ==
  [][(NoNegativeOrder /\ InStep3c) =>
       LET a == last'.a
           b == last'.b
           i == last'.i
           j == last'.j
           bothFit == CapacityTailToHead(a, j) >= 0 /\ CapacityHeadToTail(b, i) >= 0
       IN IF bothFit /\ EndsTailToHead(a, b, i, j)
            THEN SurvivorBecomes(a, heap[a].nodes \o heap[b].nodes,
                                 CapacityTailToHead(a, j))
          ELSE IF bothFit /\ EndsHeadToTail(a, b, i, j)
            THEN SurvivorBecomes(a, heap[b].nodes \o heap[a].nodes,
                                 CapacityHeadToTail(b, i))
          ELSE UNCHANGED <<routes, heap, nodeToRoute>>]_vars

\* C16's case: a saving whose endpoints match an orientation with a
\* non-negative capacity was rejected because the other capacity is negative,
\* after an earlier saving had been processed.
C16_Witness ==
  /\ NoNegativeOrder
  /\ last.op = "concat_rejected_capacity"
  /\ \/ /\ EndsTailToHead(last.a, last.b, last.i, last.j)
        /\ CapacityTailToHead(last.a, last.j) >= 0
     \/ /\ EndsHeadToTail(last.a, last.b, last.i, last.j)
        /\ CapacityHeadToTail(last.b, last.i) >= 0

\* C17: when both nodes of a saving are already in the same active route,
\* processing the saving changes no Route, not the routes array and not the
\* index, at any point of the loop, also after earlier concatenations.
C17_SameRouteNoOp ==
  [][(/\ NoNegativeOrder
      /\ pc = "savings"
      /\ \E r \in Range(routes) :
           {savingsList[k].i, savingsList[k].j} \subseteq Range(heap[r].nodes))
       => UNCHANGED <<routes, heap, nodeToRoute>>]_vars

\* --------------------------------------------------- the returned mapping
\* The ids in the routes returned under a depot's key, route after route.
RECURSIVE IdsUnder(_)
IdsUnder(rs) == IF rs = <<>> THEN <<>> ELSE rs[1].nodes \o IdsUnder(Tail(rs))

\* The vendors whose nearest depot has this id.
VendorsOf(key) ==
  {p \in DOMAIN vendorList : vehicleList[NearestPosition(vendorList[p])].id = key}

\* The depot of the list with this id.
DepotOf(key) == vehicleList[CHOOSE q \in DOMAIN vehicleList : vehicleList[q].id = key]

\* C18: in the returned mapping every node id in a route under depot key d is
\* a vendor whose nearest depot is d or an order whose vendorId is the id of
\* such a vendor; each cluster is routed by exactly one clarkWright call with
\* that depot's capacity (every route under d carries d's capacity, 10 when it
\* has none, and a vendor of d that fits it comes back exactly once); an order
\* whose vendorId matches no vendor is in no route.
C18_RoutesStayInCluster ==
  mpc = "done" =>
    /\ \A key \in DOMAIN depotRoutes :
         /\ \A id \in Range(IdsUnder(depotRoutes[key])) :
              \/ \E p \in VendorsOf(key) : vendorList[p].id = id
              \/ \E o \in DOMAIN orderList : \E p \in VendorsOf(key) :
                   /\ orderList[o].id = id
                   /\ orderList[o].vendorId = vendorList[p].id
         /\ \A x \in DOMAIN depotRoutes[key] :
              depotRoutes[key][x].vehicleCapacity = CapacityOfDepot(DepotOf(key))
         /\ \A p \in VendorsOf(key) :
              Occurrences(IdsUnder(depotRoutes[key]), vendorList[p].id)
                = IF Abs(vendorList[p].demand) <= CapacityOfDepot(DepotOf(key)) THEN 1 ELSE 0
    /\ \A o \in DOMAIN orderList :
         (\A p \in DOMAIN vendorList : vendorList[p].id # orderList[o].vendorId) =>
           \A key \in DOMAIN depotRoutes :
             orderList[o].id \notin Range(IdsUnder(depotRoutes[key]))

\* C18's case: of two depots the one nearest to a vendor has a capacity of its
\* own and returned an order of that vendor in a route of that capacity, and
\* another order of the list names a vendor that is not in the vendor list.
C18_Witness ==
  /\ mpc = "done"
  /\ Len(vehicleList) >= 2
  /\ \E key \in DOMAIN depotRoutes : \E x \in DOMAIN depotRoutes[key] :
       /\ DepotOf(key).capacity # {}
       /\ depotRoutes[key][x].vehicleCapacity # VEHICLE_INITIAL_CAPACITY
       /\ \E o \in DOMAIN orderList : orderList[o].id \in Range(depotRoutes[key][x].nodes)
  /\ \E o \in DOMAIN orderList :
       \A p \in DOMAIN vendorList : vendorList[p].id # orderList[o].vendorId

\* ------------------------------------------------ the capacity of a route
\* C19: in every reachable state every active Route has capacityUsed equal to
\* its vehicleCapacity less the demand effects of its nodes (ORDER +demand,
\* VENDOR -demand), and vehicleCapacity equal to depot.capacity, 10 when the
\* depot has none.
C19_CapacityUsedIsAccounted ==
  NoNegativeOrder =>
    \A x \in DOMAIN Active :
      /\ Active[x].vehicleCapacity = DepotCapacity
      /\ Active[x].capacityUsed
           = Active[x].vehicleCapacity - SumOfEffects(Active[x].nodes)

\* -------------------------------------------------- vendors in clarkWright
VendorIds == {nodeList[p].id : p \in {q \in DOMAIN nodeList : nodeList[q].type = VENDOR}}

\* C20: a VENDOR node is never attached to or merged into a route: while the
\* savings are processed no VENDOR id is in nodeToRoute, no saving names a
\* VENDOR, and every Route that holds a VENDOR, in the returned collection as
\* in any state before, is a one-node route made by the fallback loop.
C20_VendorNeverMerged ==
  /\ pc \in {"rank", "savings"} => DOMAIN nodeToRoute \cap VendorIds = {}
  /\ \A x \in DOMAIN savingsList :
       savingsList[x].i \notin VendorIds /\ savingsList[x].j \notin VendorIds
  /\ \A r \in DOMAIN heap :
       Range(heap[r].nodes) \cap VendorIds # {} =>
         /\ Len(heap[r].nodes) = 1
         /\ pc \in {"fallback", "return", "done"}
  /\ last.op \in {"paired", "prepended", "appended", "concat_tail_head", "concat_head_tail"}
       => {last.i, last.j} \cap VendorIds = {}

\* C20's case: a call has returned a vendor in a route of its own next to a
\* route of two or more orders, the vendor standing between orders in the list.
C20_Witness ==
  /\ pc = "done"
  /\ \E x, y \in DOMAIN Active :
       /\ Range(Active[x].nodes) \cap VendorIds # {}
       /\ Len(Active[y].nodes) >= 2
  /\ \E p, q, r \in DOMAIN nodeList :
       /\ p < q /\ q < r
       /\ nodeList[p].type = ORDER /\ nodeList[q].type = VENDOR /\ nodeList[r].type = ORDER

====
